---- MODULE Spec2Model ----
(***************************************************************************)
(* State-machine model of game.py (Flappy Bird clone, Pygame).             *)
(*                                                                         *)
(* One step of the model is one iteration of one of the three frame loops  *)
(* of the program: the start screen loop, the gameplay loop and the game   *)
(* over screen loop.  Vertical positions and velocities of the player are  *)
(* kept in units of 1/Scale pixel, so that the default gravity 0.25 and    *)
(* flap strength -6.5 are integers and the float arithmetic of the program *)
(* (exact on multiples of 1/4 at these magnitudes) is reproduced exactly.  *)
(***************************************************************************)
EXTENDS Integers, Sequences, FiniteSets, TLC

VARIABLES
    config,         \* the dictionary returned by load_config()
    stored,         \* highscore.txt: [exists, text]
    save_failed,    \* the last save_high_score() call printed its warning
    high_score,     \* main: high_score
    pc,             \* "start" | "playing" | "gameover_screen" | "quit" | "crashed"; "unit" | "flapped" | "collided" around a single call
    player,         \* main: player (x, y, velocity, started); y, velocity in 1/Scale px
    obstacles,      \* main: obstacles (list of Obstacle)
    enemies,        \* main: enemies (list of Enemy)
    score,          \* main: score
    scroll_offset,  \* main: scroll_offset
    frame_count,    \* main: frame_count
    game_over,      \* main: game_over
    session,        \* history: number of passes through the outer while loop body
    idle,           \* history: frames of this session run with game_over set
    flap_called,    \* history: Player.flap() ran during the last frame
    space_pressed,  \* history: a K_SPACE KEYDOWN was handled during the last frame
    removed_scored  \* history: obstacles of this session removed from the list with scored set

vars == <<config, stored, save_failed, high_score, pc, player, obstacles, enemies,
          score, scroll_offset, frame_count, game_over, session, idle,
          flap_called, space_pressed, removed_scored>>

-----------------------------------------------------------------------------
(* Bounds of the model *)

MaxFrames == 200
MaxDefaultFrames == 400
MaxReplayFrames == 7
MaxWait == 1
MaxIdle == 1
MaxSessions == 2
MaxEvents == 1
RandParts == 2

-----------------------------------------------------------------------------
(* Program constants *)

Scale == 4

GROUND_HEIGHT == 100
PLAYER_SIZE == 50
OBSTACLE_WIDTH == 80
OBSTACLE_SPAWN_INTERVAL == 90
ENEMY_SPAWN_INTERVAL == 180
ENEMY_SIZE == 60
MIN_GAP_Y == 150
GAP_MARGIN == 50
ENEMY_MARGIN == 100
PLAYER_SPAWN_RAISE == 50

\* default_config of load_config(); player_gravity and flap_strength in 1/Scale px
DefaultConfig ==
    [screen_width |-> 800, screen_height |-> 600, player_gravity |-> 1,
     flap_strength |-> -26, obstacle_speed |-> 4, wall_gap |-> 170,
     enemy_speed |-> 3]

\* config.json contents merged over the defaults (default_config.update)
CoarseConfig ==
    [DefaultConfig EXCEPT !.screen_width = 100, !.screen_height = 450,
                          !.player_gravity = 50 * Scale,
                          !.flap_strength = -100 * Scale, !.obstacle_speed = 10,
                          !.wall_gap = 100, !.enemy_speed = 40]

FastConfig ==
    [CoarseConfig EXCEPT !.screen_width = 400, !.obstacle_speed = 250,
                         !.enemy_speed = 250]

NarrowConfig ==
    [CoarseConfig EXCEPT !.wall_gap = 160]

SlowConfig ==
    [CoarseConfig EXCEPT !.obstacle_speed = 1]

SCREEN_WIDTH == config.screen_width
SCREEN_HEIGHT == config.screen_height
GRAVITY == config.player_gravity
FLAP_STRENGTH == config.flap_strength
OBSTACLE_SPEED == config.obstacle_speed
WALL_GAP == config.wall_gap
ENEMY_SPEED == config.enemy_speed

-----------------------------------------------------------------------------
(* Python and Pygame primitives *)

Min(a, b) == IF a < b THEN a ELSE b
Max(a, b) == IF a > b THEN a ELSE b

\* Python floor division
FloorDiv(a, b) == a \div b

\* int() of a float given in 1/Scale units: truncation toward zero, as
\* pygame.Rect does with float coordinates
Trunc(v) == IF v >= 0 THEN v \div Scale ELSE -((-v) \div Scale)

\* random.randint(lo, hi): the values the model draws; empty when the call
\* raises ValueError (lo > hi)
RandInt(lo, hi) ==
    IF lo > hi THEN {}
    ELSE {lo + ((hi - lo) * k) \div RandParts : k \in 0..RandParts}

Rect(x, y, w, h) == [x |-> x, y |-> y, w |-> w, h |-> h]

\* pygame.Rect.colliderect
colliderect(a, b) ==
    /\ a.w # 0 /\ a.h # 0 /\ b.w # 0 /\ b.h # 0
    /\ Min(a.x, a.x + a.w) < Max(b.x, b.x + b.w)
    /\ Min(a.y, a.y + a.h) < Max(b.y, b.y + b.h)
    /\ Max(a.x, a.x + a.w) > Min(b.x, b.x + b.w)
    /\ Max(a.y, a.y + a.h) > Min(b.y, b.y + b.h)

Digits == <<"0", "1", "2", "3", "4", "5", "6", "7", "8", "9">>
IsDigit(c) == \E i \in 1..10 : Digits[i] = c
DigitVal(c) == (CHOOSE i \in 1..10 : Digits[i] = c) - 1
IsSpace(c) == c \in {" ", "\n", "\t"}

RECURSIVE NatToText(_)
NatToText(n) ==
    IF n < 10 THEN <<Digits[n + 1]>>
    ELSE NatToText(n \div 10) \o <<Digits[(n % 10) + 1]>>

\* str(score)
py_str(n) == IF n < 0 THEN <<"-">> \o NatToText(-n) ELSE NatToText(n)

RECURSIVE LStrip(_)
LStrip(t) == IF t # <<>> /\ IsSpace(Head(t)) THEN LStrip(Tail(t)) ELSE t

RECURSIVE RStrip(_)
RStrip(t) ==
    IF t # <<>> /\ IsSpace(t[Len(t)]) THEN RStrip(SubSeq(t, 1, Len(t) - 1)) ELSE t

\* str.strip()
py_strip(t) == RStrip(LStrip(t))

RECURSIVE DigitsValue(_, _)
DigitsValue(t, acc) ==
    IF t = <<>> THEN acc ELSE DigitsValue(Tail(t), 10 * acc + DigitVal(Head(t)))

Unsigned(t) == IF t # <<>> /\ Head(t) \in {"+", "-"} THEN Tail(t) ELSE t

\* int(text) raises ValueError
IntRaises(t) ==
    \/ Unsigned(t) = <<>>
    \/ \E i \in 1..Len(Unsigned(t)) : ~IsDigit(Unsigned(t)[i])

\* int(text)
py_int(t) ==
    IF t # <<>> /\ Head(t) = "-" THEN -DigitsValue(Unsigned(t), 0)
    ELSE DigitsValue(Unsigned(t), 0)

-----------------------------------------------------------------------------
(* High score management *)

Absent == [exists |-> FALSE, text |-> <<>>]
File(t) == [exists |-> TRUE, text |-> t]

load_high_score(f) ==
    IF ~f.exists THEN 0
    ELSE IF IntRaises(py_strip(f.text)) THEN 0
    ELSE py_int(py_strip(f.text))

\* The files save_high_score(n) can leave behind: the new text when the write
\* succeeds; on IOError the old file (open failed) or an empty file (opened
\* for writing, hence truncated, and the write failed).
SaveOutcomes(f, n) ==
    {[file |-> File(py_str(n)), failed |-> FALSE],
     [file |-> f, failed |-> TRUE],
     [file |-> File(<<>>), failed |-> TRUE]}

-----------------------------------------------------------------------------
(* Game classes *)

\* Player.__init__
Player_init ==
    [x |-> FloorDiv(SCREEN_WIDTH, 4),
     y |-> (FloorDiv(SCREEN_HEIGHT, 2) - PLAYER_SPAWN_RAISE) * Scale,
     velocity |-> 0,
     started |-> FALSE]

\* Player.flap adding the impulse to the velocity instead of setting it
flap_Additive(p) ==
    [p EXCEPT !.velocity = @ + FLAP_STRENGTH, !.started = TRUE]

\* Player.flap
flap(p) == [p EXCEPT !.velocity = FLAP_STRENGTH, !.started = TRUE]

\* Player.update without the "if self.started" test
Player_update_Unguarded(p) ==
    LET v == p.velocity + GRAVITY
        y == p.y + v
    IN IF y < 0 THEN [p EXCEPT !.y = 0, !.velocity = 0]
       ELSE [p EXCEPT !.y = y, !.velocity = v]

\* Player.update without the "if self.y < 0" test
Player_update_NoClamp(p) ==
    IF p.started
    THEN [p EXCEPT !.y = @ + p.velocity + GRAVITY, !.velocity = @ + GRAVITY]
    ELSE p

\* Player.update without "self.velocity += GRAVITY"
Player_update_NoGravity(p) ==
    IF p.started
    THEN LET y == p.y + p.velocity
         IN IF y < 0 THEN [p EXCEPT !.y = 0, !.velocity = 0]
            ELSE [p EXCEPT !.y = y]
    ELSE p

\* Player.update
Player_update(p) ==
    IF p.started
    THEN LET v == p.velocity + GRAVITY
             y == p.y + v
         IN IF y < 0 THEN [p EXCEPT !.y = 0, !.velocity = 0]
            ELSE [p EXCEPT !.y = y, !.velocity = v]
    ELSE p

\* Player.get_rect
get_rect(p) == Rect(p.x, Trunc(p.y), PLAYER_SIZE, PLAYER_SIZE)

\* Obstacle.__init__ with the value random.randint returned; born is the
\* frame_count of the frame that constructed the object (its identity)
Obstacle_init(x, gap_y, born) ==
    [x |-> x, gap_y |-> gap_y, scored |-> FALSE, born |-> born]

\* the arguments of random.randint in Obstacle.__init__
GapRange == RandInt(MIN_GAP_Y, SCREEN_HEIGHT - GROUND_HEIGHT - WALL_GAP - GAP_MARGIN)

\* Obstacle.update
Obstacle_update(o) == [o EXCEPT !.x = @ - OBSTACLE_SPEED]

\* Obstacle.is_off_screen with <= for <
Obstacle_is_off_screen_Inclusive(o) == o.x + OBSTACLE_WIDTH <= 0

\* Obstacle.is_off_screen testing the right-hand side of the screen
Obstacle_is_off_screen_WrongSide(o) == o.x > SCREEN_WIDTH

\* Obstacle.is_off_screen
Obstacle_is_off_screen(o) == o.x + OBSTACLE_WIDTH < 0

\* Obstacle.collides_with with the bottom rectangle starting one pixel low
Obstacle_collides_with_LowBottom(o, p) ==
    LET bottom_y == o.gap_y + WALL_GAP + 1
        bottom_height == SCREEN_HEIGHT - GROUND_HEIGHT - bottom_y
    IN \/ colliderect(get_rect(p), Rect(o.x, 0, OBSTACLE_WIDTH, o.gap_y))
       \/ colliderect(get_rect(p), Rect(o.x, bottom_y, OBSTACLE_WIDTH, bottom_height))

\* Obstacle.collides_with
Obstacle_collides_with(o, p) ==
    LET bottom_y == o.gap_y + WALL_GAP
        bottom_height == SCREEN_HEIGHT - GROUND_HEIGHT - bottom_y
    IN \/ colliderect(get_rect(p), Rect(o.x, 0, OBSTACLE_WIDTH, o.gap_y))
       \/ colliderect(get_rect(p), Rect(o.x, bottom_y, OBSTACLE_WIDTH, bottom_height))

\* Enemy.__init__ with the value random.randint returned
Enemy_init(y, born) == [x |-> SCREEN_WIDTH, y |-> y, born |-> born]

\* the arguments of random.randint in Enemy.__init__
EnemyRange == RandInt(ENEMY_MARGIN, SCREEN_HEIGHT - GROUND_HEIGHT - ENEMY_MARGIN)

\* Enemy.update
Enemy_update(e) == [e EXCEPT !.x = @ - ENEMY_SPEED]

\* Enemy.is_off_screen
Enemy_is_off_screen(e) == e.x + ENEMY_SIZE < 0

\* Enemy.collides_with
Enemy_collides_with(e, p) ==
    colliderect(get_rect(p), Rect(e.x, e.y, ENEMY_SIZE, ENEMY_SIZE))

-----------------------------------------------------------------------------
(* Input *)

Events == {"QUIT", "SPACE", "RETURN", "MOUSE"}

\* what pygame.event.get() can return in one frame
EventSeqs == UNION {[1..n -> Events] : n \in 0..MaxEvents}

\* The event loop of show_start_screen and of show_game_over_screen:
\* "quit" when sys.exit() ran, else whether waiting is still set.
RECURSIVE WaitEvents(_, _)
WaitEvents(events, waiting) ==
    IF events = <<>> THEN [quit |-> FALSE, waiting |-> waiting]
    ELSE IF Head(events) = "QUIT" THEN [quit |-> TRUE, waiting |-> waiting]
    ELSE WaitEvents(Tail(events),
                    waiting /\ Head(events) \notin {"SPACE", "RETURN", "MOUSE"})

EventState(p) ==
    [player |-> p, playing |-> TRUE, quit |-> FALSE, flapped |-> FALSE,
     space |-> FALSE]

\* The gameplay event loop with K_SPACE ending the loop whether or not the
\* game is over
RECURSIVE PlayEvents_AlwaysContinue(_, _, _)
PlayEvents_AlwaysContinue(events, st, over) ==
    IF events = <<>> THEN st
    ELSE IF Head(events) = "QUIT" THEN [st EXCEPT !.quit = TRUE]
    ELSE IF Head(events) = "SPACE"
    THEN PlayEvents_AlwaysContinue(Tail(events),
                    IF ~over
                    THEN [st EXCEPT !.player = flap(@), !.flapped = TRUE,
                                    !.space = TRUE, !.playing = FALSE]
                    ELSE [st EXCEPT !.playing = FALSE, !.space = TRUE],
                    over)
    ELSE PlayEvents_AlwaysContinue(Tail(events), st, over)

\* The gameplay event loop with K_SPACE flapping whether or not the game is
\* over
RECURSIVE PlayEvents_AlwaysFlap(_, _, _)
PlayEvents_AlwaysFlap(events, st, over) ==
    IF events = <<>> THEN st
    ELSE IF Head(events) = "QUIT" THEN [st EXCEPT !.quit = TRUE]
    ELSE IF Head(events) = "SPACE"
    THEN PlayEvents_AlwaysFlap(Tail(events),
                    [st EXCEPT !.player = flap(@), !.flapped = TRUE,
                               !.space = TRUE, !.playing = ~over],
                    over)
    ELSE PlayEvents_AlwaysFlap(Tail(events), st, over)

\* The event loop of the gameplay loop, for the value game_over has during it
RECURSIVE PlayEvents(_, _, _)
PlayEvents(events, st, over) ==
    IF events = <<>> THEN st
    ELSE IF Head(events) = "QUIT" THEN [st EXCEPT !.quit = TRUE]
    ELSE IF Head(events) = "SPACE"
    THEN PlayEvents(Tail(events),
                    IF ~over
                    THEN [st EXCEPT !.player = flap(@), !.flapped = TRUE,
                                    !.space = TRUE]
                    ELSE [st EXCEPT !.playing = FALSE, !.space = TRUE],
                    over)
    ELSE PlayEvents(Tail(events), st, over)

-----------------------------------------------------------------------------
(* main: the per-frame passes of the gameplay loop *)

\* The obstacle pass with the scoring test made on the position the
\* obstacle had before its update
RECURSIVE UpdateObstacles_TestBeforeMove(_, _, _)
UpdateObstacles_TestBeforeMove(snapshot, acc, p) ==
    IF snapshot = <<>> THEN acc
    ELSE LET moved == Obstacle_update(Head(snapshot))
             off == Obstacle_is_off_screen(moved)
             passed == ~moved.scored /\ Head(snapshot).x + OBSTACLE_WIDTH < p.x
             o == IF passed THEN [moved EXCEPT !.scored = TRUE] ELSE moved
         IN UpdateObstacles_TestBeforeMove(Tail(snapshot),
                [live |-> IF off THEN acc.live ELSE Append(acc.live, o),
                 score |-> IF passed THEN acc.score + 1 ELSE acc.score,
                 removed_scored |-> IF off /\ o.scored
                                    THEN acc.removed_scored + 1
                                    ELSE acc.removed_scored],
                p)

\* The obstacle pass with a level-triggered scoring test (no "not
\* obstacle.scored")
RECURSIVE UpdateObstacles_LevelTriggered(_, _, _)
UpdateObstacles_LevelTriggered(snapshot, acc, p) ==
    IF snapshot = <<>> THEN acc
    ELSE LET moved == Obstacle_update(Head(snapshot))
             off == Obstacle_is_off_screen(moved)
             passed == moved.x + OBSTACLE_WIDTH < p.x
             o == IF passed THEN [moved EXCEPT !.scored = TRUE] ELSE moved
         IN UpdateObstacles_LevelTriggered(Tail(snapshot),
                [live |-> IF off THEN acc.live ELSE Append(acc.live, o),
                 score |-> IF passed THEN acc.score + 1 ELSE acc.score,
                 removed_scored |-> IF off /\ o.scored
                                    THEN acc.removed_scored + 1
                                    ELSE acc.removed_scored],
                p)

\* The obstacle pass scoring an obstacle when its left edge, instead of its
\* right edge, is behind the player's left edge
RECURSIVE UpdateObstacles_LeadingEdge(_, _, _)
UpdateObstacles_LeadingEdge(snapshot, acc, p) ==
    IF snapshot = <<>> THEN acc
    ELSE LET moved == Obstacle_update(Head(snapshot))
             off == Obstacle_is_off_screen(moved)
             passed == ~moved.scored /\ moved.x < p.x
             o == IF passed THEN [moved EXCEPT !.scored = TRUE] ELSE moved
         IN UpdateObstacles_LeadingEdge(Tail(snapshot),
                [live |-> IF off THEN acc.live ELSE Append(acc.live, o),
                 score |-> IF passed THEN acc.score + 1 ELSE acc.score,
                 removed_scored |-> IF off /\ o.scored
                                    THEN acc.removed_scored + 1
                                    ELSE acc.removed_scored],
                p)

\* "for obstacle in obstacles[:]": update, remove if off-screen, then the
\* scoring test, which is a second if and not an else branch.  acc.live is
\* the list as the pass leaves it.
RECURSIVE UpdateObstacles(_, _, _)
UpdateObstacles(snapshot, acc, p) ==
    IF snapshot = <<>> THEN acc
    ELSE LET moved == Obstacle_update(Head(snapshot))
             off == Obstacle_is_off_screen(moved)
             passed == ~moved.scored /\ moved.x + OBSTACLE_WIDTH < p.x
             o == IF passed THEN [moved EXCEPT !.scored = TRUE] ELSE moved
         IN UpdateObstacles(Tail(snapshot),
                [live |-> IF off THEN acc.live ELSE Append(acc.live, o),
                 score |-> IF passed THEN acc.score + 1 ELSE acc.score,
                 removed_scored |-> IF off /\ o.scored
                                    THEN acc.removed_scored + 1
                                    ELSE acc.removed_scored],
                p)

\* "for enemy in enemies[:]": update, remove if off-screen
RECURSIVE UpdateEnemies(_)
UpdateEnemies(snapshot) ==
    IF snapshot = <<>> THEN <<>>
    ELSE LET moved == Enemy_update(Head(snapshot))
         IN IF Enemy_is_off_screen(moved) THEN UpdateEnemies(Tail(snapshot))
            ELSE <<moved>> \o UpdateEnemies(Tail(snapshot))

\* The ground check with > for >=
GroundCollision_Strict(p) ==
    p.y + PLAYER_SIZE * Scale > (SCREEN_HEIGHT - GROUND_HEIGHT) * Scale

\* Check collision with ground
GroundCollision(p) ==
    p.y + PLAYER_SIZE * Scale >= (SCREEN_HEIGHT - GROUND_HEIGHT) * Scale

\* COLLISION DETECTION: the value of game_over after the three checks
DetectCollision(p, obs, ens) ==
    \/ GroundCollision(p)
    \/ \E i \in 1..Len(obs) : Obstacle_collides_with(obs[i], p)
    \/ \E i \in 1..Len(ens) : Enemy_collides_with(ens[i], p)

\* "Update high score" without the comparison with high_score
UpdateHighScore_Unconditional(over, sc) ==
    IF over
    THEN \E out \in SaveOutcomes(stored, sc) :
            /\ high_score' = sc
            /\ stored' = out.file
            /\ save_failed' = out.failed
    ELSE UNCHANGED <<high_score, stored, save_failed>>

\* "Update high score" of the rendering section, for the values game_over
\* and score have when the frame is drawn
UpdateHighScore(over, sc) ==
    IF over /\ sc > high_score
    THEN \E out \in SaveOutcomes(stored, sc) :
            /\ high_score' = sc
            /\ stored' = out.file
            /\ save_failed' = out.failed
    ELSE UNCHANGED <<high_score, stored, save_failed>>

\* The top of the outer loop keeping the player object and the score of the
\* session before
NewSession_Stale ==
    /\ UNCHANGED <<player, score>>
    /\ obstacles' = <<>>
    /\ enemies' = <<>>
    /\ scroll_offset' = 0
    /\ frame_count' = 0
    /\ game_over' = FALSE
    /\ session' = session + 1
    /\ idle' = 0
    /\ flap_called' = FALSE
    /\ space_pressed' = FALSE
    /\ removed_scored' = 0

\* "Initialize game state" at the top of the outer loop
NewSession ==
    /\ player' = Player_init
    /\ obstacles' = <<>>
    /\ enemies' = <<>>
    /\ score' = 0
    /\ scroll_offset' = 0
    /\ frame_count' = 0
    /\ game_over' = FALSE
    /\ session' = session + 1
    /\ idle' = 0
    /\ flap_called' = FALSE
    /\ space_pressed' = FALSE
    /\ removed_scored' = 0

\* The process ends: by sys.exit() in an event loop ("quit"), or by the
\* ValueError random.randint raises inside Obstacle() or Enemy(), which
\* nothing catches ("crashed").  The objects of main() are gone; the model
\* gives them the values they have before the first session, and keeps the
\* file and the last high score.
Terminate(how) ==
    /\ pc' = how
    /\ player' = Player_init
    /\ obstacles' = <<>>
    /\ enemies' = <<>>
    /\ score' = 0
    /\ scroll_offset' = 0
    /\ frame_count' = 0
    /\ game_over' = FALSE
    /\ idle' = 0
    /\ flap_called' = FALSE
    /\ space_pressed' = FALSE
    /\ removed_scored' = 0
    /\ UNCHANGED <<config, stored, save_failed, high_score, session>>

\* "Spawn obstacles" testing the frame counter as it was before the increment
SpawnObstacleDue_BeforeIncrement(p, fc) ==
    p.started /\ (fc - 1) % OBSTACLE_SPAWN_INTERVAL = 0

\* "Spawn obstacles" without the player.started test
SpawnObstacleDue_Unguarded(p, fc) == fc % OBSTACLE_SPAWN_INTERVAL = 0

\* "Spawn obstacles": the test made on the frame counter after its increment
SpawnObstacleDue(p, fc) == p.started /\ fc % OBSTACLE_SPAWN_INTERVAL = 0

\* "Spawn enemies"
SpawnEnemyDue(p, fc) == p.started /\ fc % ENEMY_SPAWN_INTERVAL = 0

\* UPDATE GAME OBJECTS, COLLISION DETECTION and RENDERING of a frame that
\* began with game_over unset
SimulateFrame(ev, fc) ==
    LET p == Player_update(ev.player)
        scroll == IF p.started THEN scroll_offset + OBSTACLE_SPEED ELSE scroll_offset
        spawnO == SpawnObstacleDue(p, fc)
        spawnE == SpawnEnemyDue(p, fc)
    IN IF spawnO /\ GapRange = {} THEN Terminate("crashed")
       ELSE \E gap_y \in (IF spawnO THEN GapRange ELSE {0}) :
         LET obs == IF spawnO
                    THEN Append(obstacles, Obstacle_init(SCREEN_WIDTH, gap_y, fc))
                    ELSE obstacles
         IN IF spawnE /\ EnemyRange = {} THEN Terminate("crashed")
            ELSE \E enemy_y \in (IF spawnE THEN EnemyRange ELSE {0}) :
              LET ens == IF spawnE THEN Append(enemies, Enemy_init(enemy_y, fc))
                         ELSE enemies
                  pass == UpdateObstacles(obs,
                              [live |-> <<>>, score |-> score,
                               removed_scored |-> removed_scored], p)
                  ens2 == UpdateEnemies(ens)
                  over == DetectCollision(p, pass.live, ens2)
              IN /\ pc' = IF ev.playing THEN "playing" ELSE "gameover_screen"
                 /\ player' = p
                 /\ scroll_offset' = scroll
                 /\ obstacles' = pass.live
                 /\ enemies' = ens2
                 /\ score' = pass.score
                 /\ removed_scored' = pass.removed_scored
                 /\ game_over' = over
                 /\ frame_count' = fc
                 /\ flap_called' = ev.flapped
                 /\ space_pressed' = ev.space
                 /\ UpdateHighScore(over, pass.score)
                 /\ UNCHANGED <<config, session, idle>>

-----------------------------------------------------------------------------
(* Actions: one iteration of a frame loop each *)

\* show_start_screen: one iteration of its loop; when the loop ends main
\* enters the outer loop and initialises the first session
StartScreenFrame ==
    /\ pc = "start"
    /\ \E events \in EventSeqs :
         LET w == WaitEvents(events, TRUE)
         IN IF w.quit
            THEN Terminate("quit")
            ELSE IF w.waiting
            THEN UNCHANGED vars
            ELSE /\ pc' = "playing"
                 /\ NewSession
                 /\ UNCHANGED <<config, stored, save_failed, high_score>>

\* the frames the model follows a session for; under the default
\* configuration the third obstacle is spawned in frame 270 and the first
\* removed in frame 310
FrameLimit ==
    IF session > 1 THEN MaxReplayFrames
    ELSE IF config = DefaultConfig THEN MaxDefaultFrames
    ELSE MaxFrames

\* main: one iteration of the gameplay loop entered with game_over unset,
\* for the event lists pygame.event.get() may return.  The player may wait
\* any number of frames; the first flap of a session arrives within
\* MaxWait frames of waiting.
PlayFrameWith(inputs) ==
    /\ pc = "playing"
    /\ ~game_over
    /\ frame_count < FrameLimit
    /\ \E events \in inputs :
         LET fc == frame_count + 1
             ev == PlayEvents(events, EventState(player), FALSE)
         IN /\ (~player.started /\ ev.player.started) => fc <= MaxWait + 1
            /\ IF ev.quit THEN Terminate("quit") ELSE SimulateFrame(ev, fc)

PlayFrame == PlayFrameWith(EventSeqs)

\* main: one iteration of the gameplay loop entered with game_over set
GameOverFrame ==
    /\ pc = "playing"
    /\ game_over
    /\ frame_count < FrameLimit
    /\ idle < MaxIdle
    /\ \E events \in EventSeqs :
         LET fc == frame_count + 1
             ev == PlayEvents(events, EventState(player), TRUE)
         IN IF ev.quit
            THEN Terminate("quit")
            ELSE /\ pc' = IF ev.playing THEN "playing" ELSE "gameover_screen"
                 /\ player' = ev.player
                 /\ frame_count' = fc
                 /\ idle' = idle + 1
                 /\ flap_called' = ev.flapped
                 /\ space_pressed' = ev.space
                 /\ UpdateHighScore(game_over, score)
                 /\ UNCHANGED <<config, obstacles, enemies, score, scroll_offset,
                                game_over, session, removed_scored>>

\* show_game_over_screen: one iteration of its loop; when the loop ends the
\* outer loop of main starts the next session
GameOverScreenFrame ==
    /\ pc = "gameover_screen"
    /\ \E events \in EventSeqs :
         LET w == WaitEvents(events, TRUE)
         IN IF w.quit
            THEN Terminate("quit")
            ELSE IF w.waiting
            THEN UNCHANGED vars
            ELSE /\ session < MaxSessions
                 /\ pc' = "playing"
                 /\ NewSession
                 /\ UNCHANGED <<config, stored, save_failed, high_score>>

\* highscore.txt as the program may find it
StoredFiles ==
    {Absent, File(<<"x">>), File(<<" ", "1", "\n">>), File(<<"-", "1">>)}

\* config.json as the program may find it
Configs == {CoarseConfig, FastConfig, NarrowConfig, SlowConfig}

\* module level and main() up to show_start_screen()
Init ==
    /\ config \in Configs
    /\ stored \in StoredFiles
    /\ save_failed = FALSE
    /\ high_score = load_high_score(stored)
    /\ pc = "start"
    /\ player = Player_init
    /\ obstacles = <<>>
    /\ enemies = <<>>
    /\ score = 0
    /\ scroll_offset = 0
    /\ frame_count = 0
    /\ game_over = FALSE
    /\ session = 0
    /\ idle = 0
    /\ flap_called = FALSE
    /\ space_pressed = FALSE
    /\ removed_scored = 0

Next ==
    \/ StartScreenFrame
    \/ PlayFrame
    \/ GameOverFrame
    \/ GameOverScreenFrame

Spec == Init /\ [][Next]_vars

-----------------------------------------------------------------------------
(* Player.flap applied to arbitrary player objects *)

MaxUnit == 3

UnitPlayers ==
    [x : {FloorDiv(SCREEN_WIDTH, 4)},
     y : {k * 25 * Scale : k \in 0..(4 * MaxUnit)},
     velocity : {k * 13 : k \in (-MaxUnit)..MaxUnit},
     started : BOOLEAN]

InitFlap ==
    /\ config \in Configs \cup {DefaultConfig}
    /\ stored = Absent
    /\ save_failed = FALSE
    /\ high_score = 0
    /\ pc = "unit"
    /\ player \in UnitPlayers
    /\ obstacles = <<>>
    /\ enemies = <<>>
    /\ score = 0
    /\ scroll_offset = 0
    /\ frame_count = 0
    /\ game_over = FALSE
    /\ session = 0
    /\ idle = 0
    /\ flap_called = FALSE
    /\ space_pressed = FALSE
    /\ removed_scored = 0

CallFlap ==
    /\ pc = "unit"
    /\ pc' = "flapped"
    /\ player' = flap(player)
    /\ flap_called' = TRUE
    /\ UNCHANGED <<config, stored, save_failed, high_score, obstacles, enemies,
                   score, scroll_offset, frame_count, game_over, session, idle,
                   space_pressed, removed_scored>>

NextFlap == CallFlap

SpecFlap == InitFlap /\ [][NextFlap]_vars

-----------------------------------------------------------------------------
(* Obstacle.collides_with applied to arbitrary players and obstacles *)

\* players at every quarter pixel between the top of the screen and the ground
CollidePlayers ==
    [x : {FloorDiv(SCREEN_WIDTH, 4)},
     y : 0..((SCREEN_HEIGHT - GROUND_HEIGHT) * Scale),
     velocity : {0},
     started : {TRUE}]

\* obstacle positions clear of the player, touching it and overlapping it
CollideXs ==
    LET px == FloorDiv(SCREEN_WIDTH, 4)
    IN {px - OBSTACLE_WIDTH - 1, px - OBSTACLE_WIDTH, px - OBSTACLE_WIDTH + 1,
        px, px + PLAYER_SIZE - 1, px + PLAYER_SIZE}

InitCollide ==
    /\ config \in {DefaultConfig, CoarseConfig}
    /\ stored = Absent
    /\ save_failed = FALSE
    /\ high_score = 0
    /\ pc = "unit"
    /\ player \in CollidePlayers
    /\ obstacles \in {<<Obstacle_init(x, gap_y, 0)>> :
                          x \in CollideXs, gap_y \in GapRange}
    /\ enemies = <<>>
    /\ score = 0
    /\ scroll_offset = 0
    /\ frame_count = 0
    /\ game_over = FALSE
    /\ session = 0
    /\ idle = 0
    /\ flap_called = FALSE
    /\ space_pressed = FALSE
    /\ removed_scored = 0

\* "if obstacle.collides_with(player): game_over = True"
CallCollidesWith ==
    /\ pc = "unit"
    /\ pc' = "collided"
    /\ game_over' = Obstacle_collides_with(obstacles[1], player)
    /\ UNCHANGED <<config, stored, save_failed, high_score, player, obstacles,
                   enemies, score, scroll_offset, frame_count, session, idle,
                   flap_called, space_pressed, removed_scored>>

NextCollide == CallCollidesWith

SpecCollide == InitCollide /\ [][NextCollide]_vars

-----------------------------------------------------------------------------

(* The program under the default configuration (no config.json)            *)

\* the frames in which a K_SPACE may arrive: every FlapEvery-th
FlapEvery == 26

\* event lists without K_SPACE
NoSpaceSeqs == {s \in EventSeqs : \A i \in 1..Len(s) : s[i] # "SPACE"}

DefaultInputs ==
    IF frame_count % FlapEvery = 0 THEN EventSeqs ELSE NoSpaceSeqs

InitDefault ==
    /\ config = DefaultConfig
    /\ stored = Absent
    /\ save_failed = FALSE
    /\ high_score = load_high_score(stored)
    /\ pc = "start"
    /\ player = Player_init
    /\ obstacles = <<>>
    /\ enemies = <<>>
    /\ score = 0
    /\ scroll_offset = 0
    /\ frame_count = 0
    /\ game_over = FALSE
    /\ session = 0
    /\ idle = 0
    /\ flap_called = FALSE
    /\ space_pressed = FALSE
    /\ removed_scored = 0

PlayFrameDefault == PlayFrameWith(DefaultInputs)

NextDefault ==
    \/ StartScreenFrame
    \/ PlayFrameDefault
    \/ GameOverFrame
    \/ GameOverScreenFrame

SpecDefault == InitDefault /\ [][NextDefault]_vars

-----------------------------------------------------------------------------

(* A session from the frame after which no flap arrives                    *)

\* started players above the ground, with the velocity a flap and up to
\* MaxUnit frames of gravity give
FallPlayers ==
    {p \in [x : {FloorDiv(SCREEN_WIDTH, 4)},
            y : {k * 100 * Scale : k \in 0..MaxUnit},
            velocity : {FLAP_STRENGTH + k * GRAVITY : k \in 0..MaxUnit},
            started : {TRUE}] : ~GroundCollision(p)}

\* event lists with neither K_SPACE nor QUIT
QuietSeqs == {s \in NoSpaceSeqs : \A i \in 1..Len(s) : s[i] # "QUIT"}

InitFall ==
    /\ config \in Configs \cup {DefaultConfig}
    /\ stored = Absent
    /\ save_failed = FALSE
    /\ high_score = 0
    /\ pc = "unit"
    /\ player = Player_init
    /\ obstacles = <<>>
    /\ enemies = <<>>
    /\ score = 0
    /\ scroll_offset = 0
    /\ frame_count = 0
    /\ game_over = FALSE
    /\ session = 0
    /\ idle = 0
    /\ flap_called = FALSE
    /\ space_pressed = FALSE
    /\ removed_scored = 0

\* the state of a first session after its last flap: before its first
\* obstacle, in its first frames or just before the frame that spawns
LastFlap ==
    /\ pc = "unit"
    /\ pc' = "playing"
    /\ player' \in FallPlayers
    /\ frame_count' \in {MaxWait + 1, OBSTACLE_SPAWN_INTERVAL - MaxWait - 1}
    /\ scroll_offset' = frame_count' * OBSTACLE_SPEED
    /\ session' = 1
    /\ UNCHANGED <<config, stored, save_failed, high_score, obstacles, enemies,
                   score, game_over, idle, flap_called, space_pressed,
                   removed_scored>>

\* a gameplay frame in which no K_SPACE and no QUIT is read
QuietFrame == PlayFrameWith(QuietSeqs)

NextFall == LastFlap \/ QuietFrame

\* the gameplay loop keeps iterating: "while playing: clock.tick(FPS)"
SpecFall == InitFall /\ [][NextFall]_vars /\ WF_vars(QuietFrame)

-----------------------------------------------------------------------------

(* Properties *)

\* The state of the session state machine
SessionState ==
    IF pc = "start" THEN "Start"
    ELSE IF pc = "playing" THEN (IF game_over THEN "GameOverInline" ELSE "Playing")
    ELSE IF pc = "gameover_screen" THEN "GameOverScreen"
    ELSE "Exited"

SpawnY == (FloorDiv(SCREEN_HEIGHT, 2) - 50) * Scale

\* C1: the session changes state only along Start -> Playing,
\* Playing -> GameOverInline, GameOverInline -> GameOverScreen and
\* GameOverScreen -> Playing (or the process ends); so GameOverScreen is
\* entered only from GameOverInline, GameOverInline only from Playing, and
\* Start is never re-entered.
C1_Transitions ==
    [][\/ SessionState' = SessionState
       \/ SessionState' = "Exited"
       \/ <<SessionState, SessionState'>> \in
             {<<"Start", "Playing">>, <<"Playing", "GameOverInline">>,
              <<"GameOverInline", "GameOverScreen">>,
              <<"GameOverScreen", "Playing">>}]_vars

\* a second session has been played up to its game over
C1_Witness == session = 2 /\ pc = "gameover_screen" /\ game_over

\* The collision conditions on the state a frame leaves behind
CollisionCondition ==
    \/ player.y + PLAYER_SIZE * Scale >= (SCREEN_HEIGHT - GROUND_HEIGHT) * Scale
    \/ \E i \in 1..Len(obstacles) : Obstacle_collides_with(obstacles[i], player)
    \/ \E i \in 1..Len(enemies) : Enemy_collides_with(enemies[i], player)

\* C2: a frame of the gameplay loop that starts with game_over unset ends
\* with game_over set iff a collision condition holds on the entities as the
\* frame's updates left them; nothing else sets game_over.
C2_GameOverIffCollision ==
    [][/\ (pc = "playing" /\ ~game_over /\ pc' = "playing")
            => (game_over' <=> CollisionCondition')
       /\ (~game_over /\ game_over')
            => (pc = "playing" /\ pc' = "playing" /\ CollisionCondition')]_vars

\* the game ended on an enemy, off the ground and clear of every obstacle
C2_Witness ==
    /\ pc = "playing" /\ game_over
    /\ player.y + PLAYER_SIZE * Scale < (SCREEN_HEIGHT - GROUND_HEIGHT) * Scale
    /\ \A i \in 1..Len(obstacles) : ~Obstacle_collides_with(obstacles[i], player)
    /\ \E i \in 1..Len(enemies) : Enemy_collides_with(enemies[i], player)

\* C3: once game_over is set, every later frame of the session leaves the
\* player, the obstacle and enemy lists, the score and the scroll offset
\* unchanged and game_over set; in such a frame Player.flap() is not called,
\* and K_SPACE is what ends the gameplay loop.
C3_Frozen ==
    [][(game_over /\ session' = session /\ pc' \in {"playing", "gameover_screen"})
          => /\ UNCHANGED <<player, obstacles, enemies, score, scroll_offset>>
             /\ game_over'
             /\ pc = "playing" =>
                   /\ ~flap_called'
                   /\ space_pressed' <=> (pc' = "gameover_screen")]_vars

\* a flap input arrived after a game over with obstacles on screen, and
\* ended the gameplay loop
C3_Witness ==
    /\ pc = "gameover_screen" /\ game_over /\ space_pressed /\ ~flap_called
    /\ obstacles # <<>> /\ player.started /\ scroll_offset > 0

\* C4: the step from the game over screen into the gameplay loop starts a
\* fresh session (empty lists, score 0, frame counter 0, game_over unset,
\* player at its spawn height with velocity 0 and not started) and keeps the
\* in-memory high score.
C4_FreshSession ==
    [][(pc = "gameover_screen" /\ pc' = "playing")
          => /\ obstacles' = <<>> /\ enemies' = <<>>
             /\ score' = 0 /\ frame_count' = 0 /\ ~game_over'
             /\ player'.y = SpawnY /\ player'.velocity = 0 /\ ~player'.started
             /\ high_score' = high_score]_vars

\* a second session begins after a session that scored 2 and set the high
\* score
C4_Witness ==
    /\ session = 2 /\ pc = "playing" /\ frame_count = 0 /\ score = 0
    /\ high_score = 2

\* C5 as stated: at the game over screen the high score is at least the
\* final score and the persisted value equals the high score.
C5_PersistedEqualsHighScore ==
    pc = "gameover_screen"
        => (high_score >= score /\ load_high_score(stored) = high_score)

\* C5: the high score changes only in the frame that sets game_over, to
\* max(high score, score) (so only to a strictly greater score, and it never
\* decreases); at the game over screen it is at least the final score; and
\* the persisted value equals it unless the last save_high_score call failed.
C5_HighScore ==
    /\ [](pc = "gameover_screen" => high_score >= score)
    /\ [](~save_failed => load_high_score(stored) = high_score)
    /\ [][/\ high_score' = IF ~game_over /\ game_over' /\ score' > high_score
                           THEN score' ELSE high_score
          /\ stored' # stored => high_score' > high_score]_vars

\* a session scored 2 over a smaller high score, and the file holds "2"
C5_Witness ==
    /\ pc = "gameover_screen" /\ score = 2 /\ high_score = 2
    /\ ~save_failed /\ stored = File(<<"2">>)

\* the obstacles of a list, by the frame that created them
Born(list) == {list[i].born : i \in 1..Len(list)}
ByBorn(list, b) == list[CHOOSE i \in 1..Len(list) : list[i].born = b]

\* C6: a live obstacle's scored flag is set exactly when obstacle.x + width <
\* player.x holds after its position update, so it is set in the first frame
\* in which that holds; once set it stays set, and every obstacle that leaves
\* the list has it set.
C6_ScoredOnce ==
    /\ [](\A i \in 1..Len(obstacles) :
            obstacles[i].scored <=> (obstacles[i].x + OBSTACLE_WIDTH < player.x))
    /\ [][(session' = session /\ pc' \in {"playing", "gameover_screen"})
            => /\ \A b \in Born(obstacles) \cap Born(obstacles') :
                    ByBorn(obstacles, b).scored => ByBorn(obstacles', b).scored
               /\ removed_scored' - removed_scored =
                    Cardinality(Born(obstacles) \ Born(obstacles'))]_vars

\* an obstacle on screen has been passed and scored
C6_Witness ==
    /\ pc = "playing" /\ ~game_over /\ score = 1
    /\ \E i \in 1..Len(obstacles) :
          obstacles[i].scored /\ obstacles[i].x + OBSTACLE_WIDTH < player.x

\* C7: the score equals the number of obstacles of the session whose scored
\* flag is set, on the list or removed from it, and never decreases within a
\* session.
C7_ScoreCountsScored ==
    /\ [](score = Cardinality({b \in Born(obstacles) : ByBorn(obstacles, b).scored})
                    + removed_scored)
    /\ [][(session' = session /\ pc' \in {"playing", "gameover_screen"})
            => score' >= score]_vars

\* two obstacles have been scored: one removed since, one still on the list
C7_Witness ==
    /\ score = 2 /\ removed_scored = 1
    /\ \E i \in 1..Len(obstacles) : obstacles[i].scored

\* C8 as stated: in a frame of the obstacle pass the score grows only by the
\* obstacles that stay on the list and are newly scored; an obstacle removed
\* in the frame adds nothing.
C8_RemovedNotScored ==
    [][(pc = "playing" /\ ~game_over /\ pc' = "playing")
          => score' - score =
               Cardinality({b \in Born(obstacles') :
                              /\ ByBorn(obstacles', b).scored
                              /\ b \in Born(obstacles)
                                    => ~ByBorn(obstacles, b).scored})]_vars

\* C9: while the player has not started, its velocity is 0 and its y is the
\* spawn value, however many frames have run.
C9_NotStartedAtRest ==
    ~player.started => (player.velocity = 0 /\ player.y = SpawnY)

\* a gameplay frame has run Player.update() on a player that has not started
C9_Witness ==
    pc = "playing" /\ ~player.started /\ frame_count >= 1

\* C10: Player.flap() leaves velocity equal to the flap strength and started
\* set, whatever they and y were, and leaves x and y unchanged.
C10_Flap ==
    [][(pc = "unit" /\ pc' = "flapped")
          => /\ player'.velocity = config.flap_strength
             /\ player'.started
             /\ player'.x = player.x /\ player'.y = player.y]_vars

\* flap() has run on a player that was moving, away from its spawn height
C10_Witness ==
    /\ pc = "flapped" /\ player.started /\ player.y = 0
    /\ player.velocity = config.flap_strength

\* a gameplay frame that updated the game objects and left the loop running
SimulatedFrame == pc = "playing" /\ ~game_over /\ pc' = "playing"

\* C11: the player's y is never negative, and a frame whose
\* "velocity += gravity; y += velocity" would take a started player above
\* the top of the screen leaves it at y = 0 with velocity 0; any other
\* frame of a started player leaves exactly the integrated values
C11_ClampAtTop ==
    /\ [](player.y >= 0)
    /\ [][SimulatedFrame /\ player'.started =>
            LET v == (IF flap_called' THEN FLAP_STRENGTH ELSE player.velocity)
                         + GRAVITY
                y == player.y + v
            IN IF y < 0
               THEN player'.y = 0 /\ player'.velocity = 0
               ELSE player'.y = y /\ player'.velocity = v]_vars

\* a frame has stopped the player at the top of the screen
C11_Witness ==
    /\ pc = "playing" /\ ~game_over /\ flap_called
    /\ player.started /\ player.y = 0 /\ player.velocity = 0

\* the obstacles of a list that frame b constructed
SpawnedIn(list, b) == SelectSeq(list, LAMBDA o : o.born = b)

\* C12: the frame counter is 0 when a session begins and grows by one in
\* every iteration of the gameplay loop, game-over iterations included; an
\* iteration entered with game_over unset appends exactly one new obstacle,
\* constructed at x = SCREEN_WIDTH and moved once by the same frame's pass,
\* when the player has started and the incremented counter is a multiple of
\* OBSTACLE_SPAWN_INTERVAL, and no new obstacle otherwise; an iteration
\* entered with game_over set appends none
C12_SpawnCadence ==
    /\ [][pc # "playing" /\ pc' = "playing" => frame_count' = 0]_vars
    /\ [][pc = "playing" /\ pc' \in {"playing", "gameover_screen"}
            => frame_count' = frame_count + 1]_vars
    /\ [][pc = "playing" /\ game_over /\ pc' \in {"playing", "gameover_screen"}
            => obstacles' = obstacles]_vars
    /\ [][SimulatedFrame =>
            LET new == Born(obstacles') \ Born(obstacles)
            IN IF player'.started /\ frame_count' % OBSTACLE_SPAWN_INTERVAL = 0
               THEN /\ new = {frame_count'}
                    /\ Len(SpawnedIn(obstacles', frame_count')) = 1
                    /\ ByBorn(obstacles', frame_count').x
                           = SCREEN_WIDTH - OBSTACLE_SPEED
               ELSE new = {}]_vars

\* the second obstacle of a session has just been spawned, in frame 180
C12_Witness ==
    /\ pc = "playing" /\ player.started
    /\ frame_count = 2 * OBSTACLE_SPAWN_INTERVAL
    /\ obstacles # <<>>
    /\ obstacles[Len(obstacles)].born = frame_count
    /\ obstacles[Len(obstacles)].x = SCREEN_WIDTH - OBSTACLE_SPEED

\* the process has ended
Ended == pc \in {"quit", "crashed"}

\* C13: the process ends only by a Quit input, read in one of the states
\* Start, Playing, GameOver-Inline and GameOver-Screen, and the step that
\* ends it writes neither the high score nor its file
C13_QuitOnly ==
    [][~Ended /\ Ended'
         => /\ pc' = "quit"
            /\ pc \in {"start", "playing", "gameover_screen"}
            /\ stored' = stored
            /\ high_score' = high_score]_vars

\* C14: no exception leaves the frame loop: the process never ends by the
\* ValueError of an empty random.randint range in Obstacle() or Enemy()
C14_NoCrash == pc # "crashed"

\* C15: the high score in memory and the value highscore.txt yields when it
\* is loaded are never negative
C15_NonNegative == high_score >= 0 /\ load_high_score(stored) >= 0

\* the half-open pixel ranges [a1, a2) and [b1, b2) share a pixel
Meet(a1, a2, b1, b2) == a1 < a2 /\ b1 < b2 /\ a1 < b2 /\ b1 < a2

\* C16: Obstacle.collides_with(player) is true exactly when the player's
\* box shares a pixel with the top rectangle (x, 0, width, gap_y) or with
\* the bottom rectangle from gap_y + WALL_GAP down to the ground; a box
\* inside the gap gives false and a box reaching one pixel into the bottom
\* rectangle gives true
C16_CollidesIffOverlap ==
    pc = "collided" =>
        LET o == obstacles[1]
            top == player.y \div Scale
            bottom == top + PLAYER_SIZE
            gap_end == o.gap_y + WALL_GAP
            cols == Meet(player.x, player.x + PLAYER_SIZE,
                         o.x, o.x + OBSTACLE_WIDTH)
        IN /\ game_over <=>
                  /\ cols
                  /\ \/ Meet(top, bottom, 0, o.gap_y)
                     \/ Meet(top, bottom, gap_end, SCREEN_HEIGHT - GROUND_HEIGHT)
           /\ top >= o.gap_y /\ bottom <= gap_end => ~game_over
           /\ cols /\ bottom = gap_end + 1 => game_over

\* the call reported the collision of a box that reaches one pixel into the
\* bottom rectangle
C16_Witness ==
    /\ pc = "collided" /\ game_over
    /\ (player.y \div Scale) + PLAYER_SIZE = obstacles[1].gap_y + WALL_GAP + 1
    /\ player.y % Scale # 0

\* the elements of a list are in the order of their construction
InSpawnOrder(list) ==
    \A i, j \in 1..Len(list) : i < j => list[i].born < list[j].born

\* the elements a frame keeps are those whose moved position is not
\* off-screen (x + width < 0), each moved by speed and in the same order
KeepsOnScreen(before, after, speed, width) ==
    /\ \A b \in Born(before) :
           /\ b \notin Born(after) <=> ByBorn(before, b).x - speed + width < 0
           /\ b \in Born(after) => ByBorn(after, b).x = ByBorn(before, b).x - speed
    /\ InSpawnOrder(after)

C18_NothingBeforeFlap ==
    ~player.started =>
        obstacles = <<>> /\ enemies = <<>> /\ score = 0 /\ ~game_over

\* the player has waited through the frames 90 and 180 without flapping
C18_Witness ==
    /\ config = DefaultConfig
    /\ pc = "playing" /\ ~player.started
    /\ frame_count > ENEMY_SPAWN_INTERVAL

\* C19: no live obstacle whose scored flag is set collides with the player
C19_ScoredNeverCollides ==
    \A i \in 1..Len(obstacles) :
        obstacles[i].scored => ~Obstacle_collides_with(obstacles[i], player)

\* a scored obstacle is live and the player, still in play, is level with one
\* of its pipes
C19_Witness ==
    \E i \in 1..Len(obstacles) :
        /\ pc = "playing" /\ ~game_over
        /\ obstacles[i].scored
        /\ \/ player.y \div Scale < obstacles[i].gap_y
           \/ (player.y \div Scale) + PLAYER_SIZE > obstacles[i].gap_y + WALL_GAP

\* C20: a started session in which no flap arrives any more and whose
\* frames keep running reaches game-over (frames stop running when the
\* process ends)
C20_FallEnds ==
    (pc = "playing" /\ player.started /\ ~game_over) ~> (game_over \/ Ended)

\* the player, rising when the flaps stopped, has come down to the ground
C20_Witness ==
    /\ pc = "playing" /\ game_over
    /\ GroundCollision(player)
    /\ player.velocity > -FLAP_STRENGTH

\* C21: under the default configuration there are never more than 3 live
\* obstacles; the live obstacles are in spawn order with strictly
\* increasing x (oldest leftmost), and two consecutive ones are exactly
\* OBSTACLE_SPEED * OBSTACLE_SPAWN_INTERVAL apart; the live enemies are in
\* spawn order with increasing x too
C21_BoundedOrdered ==
    /\ Len(obstacles) <= 3
    /\ InSpawnOrder(obstacles)
    /\ InSpawnOrder(enemies)
    /\ \A i \in 1..(Len(obstacles) - 1) :
           /\ obstacles[i].x < obstacles[i + 1].x
           /\ obstacles[i + 1].x - obstacles[i].x
                  = OBSTACLE_SPEED * OBSTACLE_SPAWN_INTERVAL
    /\ \A i \in 1..(Len(enemies) - 1) : enemies[i].x < enemies[i + 1].x

\* three obstacles are live again after the first one of the session has
\* been removed, and two enemies with them
C21_Witness ==
    /\ config = DefaultConfig
    /\ pc = "playing" /\ ~game_over
    /\ Len(obstacles) = 3
    /\ obstacles[1].born = 2 * OBSTACLE_SPAWN_INTERVAL
    /\ Len(enemies) = 2

=============================================================================
